---- MODULE Spec2Model ----
(***************************************************************************)
(* Model of custom_components/yale_smart_alarm_v2/coordinator.py:          *)
(* YaleDataUpdateCoordinator (get_updates, _async_update_data,             *)
(* device_on_in_updates_history).                                          *)
(*                                                                         *)
(* Python values are tagged records.  A dict (a device, a history item) is *)
(* a function from its keys to values, so a key can be missing.  A string  *)
(* that the code parses (minigw_lock_status, status_temp) is a sequence of *)
(* one-character strings; other strings are TLA+ strings.  status1 is the  *)
(* set of markers m for which the code's test `m in status1` is true.      *)
(***************************************************************************)
EXTENDS Integers, Sequences, FiniteSets, TLC

VARIABLES
    yale,       \* self.yale: the client session, or None
    sessions,   \* number of YaleSmartAlarmClient objects constructed so far
    ctor,       \* last get_updates call: "skipped", "ok" or "failed" construction
    clientErr,  \* last get_updates call: the exception the client raised, or "none"
    outcome,    \* how the last call ended: "snapshot" or the exception that escaped
    raw,        \* CYCLE.device_status as the client returned it in the last call
    updates,    \* the dict get_updates returned (its device dicts are mutated in place)
    data,       \* the dict _async_update_data returned in the last call
    prev,       \* the dict returned by the normalization before the last one
    ret,        \* the value device_on_in_updates_history returned
    pc          \* position of the driver that applies the functions

vars == <<yale, sessions, ctor, clientErr, outcome, raw, updates, data, prev, ret, pc>>

-----------------------------------------------------------------------------
(* Bounds of the model. *)

MaxStrLen == 2
MaxHist == 2
MaxDevices == 2
MaxSessions == 2

-----------------------------------------------------------------------------
(* Python values. *)

None == [tag |-> "None"]
Str(s) == [tag |-> "str", s |-> s]
Chars(cs) == [tag |-> "str", cs |-> cs]
IntV(n) == [tag |-> "int", n |-> n]
FloatV(m, e) == [tag |-> "float", m |-> m, e |-> e]

\* bool(v) as `or` uses it
Truthy(v) ==
    CASE v.tag = "None" -> FALSE
      [] v.tag = "str" -> v.cs # <<>>
      [] OTHER -> TRUE

\* str(v) for the values compared as strings (area, event_type)
PyStr(v) ==
    CASE v.tag = "str" -> v.s
      [] v.tag = "int" -> ToString(v.n)
      [] OTHER -> "None"

Has(d, k) == k \in DOMAIN d

\* d[k] = v on a dict
SetItem(d, k, v) == (k :> v) @@ d

EmptyDict == [k \in {} |-> None]

-----------------------------------------------------------------------------
(* int(text, 16) on a text without sign, prefix, blanks or underscores. *)

HexDigits ==
    [c \in {"0", "1", "2", "3", "4", "5", "6", "7", "8", "9",
            "A", "B", "C", "D", "E", "F", "a", "f"} |->
        CASE c = "0" -> 0 [] c = "1" -> 1 [] c = "2" -> 2 [] c = "3" -> 3
          [] c = "4" -> 4 [] c = "5" -> 5 [] c = "6" -> 6 [] c = "7" -> 7
          [] c = "8" -> 8 [] c = "9" -> 9 [] c = "A" -> 10 [] c = "B" -> 11
          [] c = "C" -> 12 [] c = "D" -> 13 [] c = "E" -> 14 [] c = "F" -> 15
          [] c = "a" -> 10 [] c = "f" -> 15]

RECURSIVE HexValue(_, _)
HexValue(cs, acc) ==
    IF cs = <<>> THEN acc
    ELSE HexValue(Tail(cs), acc * 16 + HexDigits[Head(cs)])

IntBase16(cs) ==
    IF cs # <<>> /\ \A i \in 1..Len(cs) : cs[i] \in DOMAIN HexDigits
    THEN [ok |-> TRUE, v |-> HexValue(cs, 0)]
    ELSE [ok |-> FALSE, v |-> 0]

\* lock_status & mask == mask, for a mask that is a power of two
BitSet(v, mask) == (v \div mask) % 2 = 1

-----------------------------------------------------------------------------
(* float(text) on a text of decimal digits with at most one point. *)

DecDigits ==
    [c \in {"0", "1", "2", "5"} |->
        CASE c = "0" -> 0 [] c = "1" -> 1 [] c = "2" -> 2 [] c = "5" -> 5]

RECURSIVE DecScan(_, _, _, _)
\* m: the digits read so far as an integer; e: digits read after the point;
\* pt: whether the point was read
DecScan(cs, m, e, pt) ==
    IF cs = <<>> THEN [m |-> m, e |-> e]
    ELSE IF Head(cs) = "." THEN DecScan(Tail(cs), m, e, TRUE)
    ELSE DecScan(Tail(cs), m * 10 + DecDigits[Head(cs)],
                 IF pt THEN e + 1 ELSE e, pt)

RECURSIVE FloatNorm(_, _)
\* the same number with no trailing zero after the point: 1.50 = 1.5
FloatNorm(m, e) ==
    IF e > 0 /\ m % 10 = 0 THEN FloatNorm(m \div 10, e - 1) ELSE FloatV(m, e)

PyFloat(v) ==
    IF v.tag # "str" THEN [exc |-> "TypeError", v |-> None]
    ELSE LET cs == v.cs
             points == {i \in 1..Len(cs) : cs[i] = "."}
             digits == {i \in 1..Len(cs) : cs[i] \in DOMAIN DecDigits}
         IN  IF /\ points \cup digits = 1..Len(cs)
                /\ Cardinality(points) <= 1
                /\ digits # {}
             THEN LET r == DecScan(cs, 0, 0, FALSE)
                  IN  [exc |-> "none", v |-> FloatNorm(r.m, r.e)]
             ELSE [exc |-> "ValueError", v |-> None]

-----------------------------------------------------------------------------
(* Constants of const.py, which is not among the sources: two distinct     *)
(* event codes, and the client errors other than AuthenticationError.      *)

YALE_EVENT_TYPE_SMOKE_ON == "EVENT_SMOKE_ON"
YALE_EVENT_TYPE_SMOKE_OFF == "EVENT_SMOKE_OFF"
YALE_BASE_ERRORS == {"ConnectionError", "TimeoutError", "UnknownError"}

DefaultMinutes == 3

-----------------------------------------------------------------------------
(* device_on_in_updates_history *)

\* datetime.strptime on a time of one fixed day and hour: seconds in the hour
Strptime(t) == t.mi * 60 + t.ss

\* timedelta(minutes=minutes), in seconds
Timedelta(minutes) == minutes * 60

RECURSIVE ScanHistoryStrict(_, _, _, _, _, _)
\* the loop with the window test written `<=`: an item exactly at the start of
\* the window stops the scan
ScanHistoryStrict(history, i, device, accepted_timestamp, enabled_type, disabled_type) ==
    IF i > Len(history) THEN FALSE
    ELSE LET hist_item == history[i]
             hist_date == Strptime(hist_item["time"])
             next == ScanHistoryStrict(history, i + 1, device, accepted_timestamp,
                                       enabled_type, disabled_type)
         IN  IF hist_date <= accepted_timestamp THEN FALSE
             ELSE IF hist_item["type"] # device["type"] THEN next
             ELSE IF PyStr(hist_item["area"]) # PyStr(device["area"]) THEN next
             ELSE IF PyStr(hist_item["event_type"]) = disabled_type THEN FALSE
             ELSE IF PyStr(hist_item["event_type"]) = enabled_type THEN TRUE
             ELSE next

RECURSIVE ScanHistory(_, _, _, _, _, _)
\* the for loop from item i on; the value is `exists` when the loop ends
ScanHistory(history, i, device, accepted_timestamp, enabled_type, disabled_type) ==
    IF i > Len(history) THEN FALSE
    ELSE LET hist_item == history[i]
             hist_date == Strptime(hist_item["time"])
             next == ScanHistory(history, i + 1, device, accepted_timestamp,
                                 enabled_type, disabled_type)
         IN  IF hist_date < accepted_timestamp THEN FALSE
             ELSE IF hist_item["type"] # device["type"] THEN next
             ELSE IF PyStr(hist_item["area"]) # PyStr(device["area"]) THEN next
             ELSE IF PyStr(hist_item["event_type"]) = disabled_type THEN FALSE
             ELSE IF PyStr(hist_item["event_type"]) = enabled_type THEN TRUE
             ELSE next

device_on_in_updates_history(device, upd, enabled_type, disabled_type, minutes) ==
    LET update_timestamp == upd["update_timestamp"]
        accepted_timestamp == update_timestamp - Timedelta(minutes)
    IN  ScanHistory(upd["history"], 1, device, accepted_timestamp,
                    enabled_type, disabled_type)

-----------------------------------------------------------------------------
(* _async_update_data: the body of the loop over the devices.              *)
(* A result is [exc, device, list]: the exception raised ("none" if none), *)
(* the device dict as the code leaves it, and the list it was appended to. *)

Classified(device, list) == [exc |-> "none", device |-> device, list |-> list]
Raised(exc, device) == [exc |-> exc, device |-> device, list |-> "none"]

\* the table with the unlock row tested before the lock row
LockDecisionUnlockFirst(device, lock_status) ==
    LET state == device["status1"]
        closed == BitSet(lock_status, 16)
        locked == BitSet(lock_status, 1)
        marker == "device_status.lock" \in state \/ "device_status.unlock" \in state
        Set2(s1, s2) == SetItem(SetItem(device, "_state", Str(s1)), "_state2", Str(s2))
    IN  IF lock_status = 0 /\ "device_status.unlock" \in state
            THEN Set2("unlocked", "unknown")
        ELSE IF lock_status = 0 /\ "device_status.lock" \in state
            THEN Set2("locked", "unknown")
        ELSE IF lock_status # 0 /\ marker /\ closed /\ locked
            THEN Set2("locked", "closed")
        ELSE IF lock_status # 0 /\ marker /\ closed /\ ~locked
            THEN Set2("unlocked", "closed")
        ELSE IF lock_status # 0 /\ marker /\ ~closed
            THEN Set2("unlocked", "open")
        ELSE SetItem(device, "_state", Str("unavailable"))

LockDecision(device, lock_status) ==
    LET state == device["status1"]
        closed == BitSet(lock_status, 16)
        locked == BitSet(lock_status, 1)
        marker == "device_status.lock" \in state \/ "device_status.unlock" \in state
        Set2(s1, s2) == SetItem(SetItem(device, "_state", Str(s1)), "_state2", Str(s2))
    IN  IF lock_status = 0 /\ "device_status.lock" \in state
            THEN Set2("locked", "unknown")
        ELSE IF lock_status = 0 /\ "device_status.unlock" \in state
            THEN Set2("unlocked", "unknown")
        ELSE IF lock_status # 0 /\ marker /\ closed /\ locked
            THEN Set2("locked", "closed")
        ELSE IF lock_status # 0 /\ marker /\ closed /\ ~locked
            THEN Set2("unlocked", "closed")
        ELSE IF lock_status # 0 /\ marker /\ ~closed
            THEN Set2("unlocked", "open")
        ELSE SetItem(device, "_state", Str("unavailable"))

\* str(lock_status_str or 0)
LockStatusText(lock_status_str) ==
    IF Truthy(lock_status_str) THEN lock_status_str.cs ELSE <<"0">>

ClassifyLock(device) ==
    IF ~Has(device, "minigw_lock_status") THEN Raised("KeyError", device)
    ELSE LET p == IntBase16(LockStatusText(device["minigw_lock_status"]))
         IN  IF ~p.ok THEN Raised("ValueError", device)
             ELSE Classified(LockDecision(device, p.v), "locks")

\* the open marker tested before the closed marker
ContactStateOpenFirst(state) ==
    IF "device_status.dc_open" \in state THEN "open"
    ELSE IF "device_status.dc_close" \in state THEN "closed"
    ELSE "unavailable"

ContactState(state) ==
    IF "device_status.dc_close" \in state THEN "closed"
    ELSE IF "device_status.dc_open" \in state THEN "open"
    ELSE "unavailable"

\* the derived state written over status1 as well
ClassifyContactOverwrite(device) ==
    Classified(SetItem(SetItem(device, "_state", Str(ContactState(device["status1"]))),
                       "status1", {}),
               "door_windows")

ClassifyContact(device) ==
    Classified(SetItem(device, "_state", Str(ContactState(device["status1"]))),
               "door_windows")

ClassifyTemperature(device) ==
    IF ~Has(device, "status_temp") THEN Raised("KeyError", device)
    ELSE LET f == PyFloat(device["status_temp"])
         IN  IF f.exc # "none" THEN Raised(f.exc, device)
             ELSE Classified(SetItem(device, "_state", f.v), "sensors_temperature")

\* the detector appended to the temperature list
ClassifySmokeAsTemperature(device, upd) ==
    LET state == IF device_on_in_updates_history(device, upd,
                        YALE_EVENT_TYPE_SMOKE_ON, YALE_EVENT_TYPE_SMOKE_OFF,
                        DefaultMinutes)
                 THEN "on" ELSE "off"
    IN  Classified(SetItem(device, "_state", Str(state)), "sensors_temperature")

ClassifySmoke(device, upd) ==
    LET state == IF device_on_in_updates_history(device, upd,
                        YALE_EVENT_TYPE_SMOKE_ON, YALE_EVENT_TYPE_SMOKE_OFF,
                        DefaultMinutes)
                 THEN "on" ELSE "off"
    IN  Classified(SetItem(device, "_state", Str(state)), "sensors_smoke")

ClassifyDevice(device, upd) ==
    CASE device["type"] = "device_type.door_lock" -> ClassifyLock(device)
      [] device["type"] = "device_type.door_contact" -> ClassifyContact(device)
      [] device["type"] = "device_type.temperature_sensor" -> ClassifyTemperature(device)
      [] device["type"] = "device_type.smoke_detector" -> ClassifySmoke(device, upd)
      [] OTHER -> Classified(device, "none")

-----------------------------------------------------------------------------
(* _async_update_data: the loop, the four maps and the returned dict. *)

NoData == [tag |-> "None"]

AppendTo(acc, list, device) ==
    CASE list = "locks" -> [acc EXCEPT !.locks = Append(@, device)]
      [] list = "door_windows" -> [acc EXCEPT !.door_windows = Append(@, device)]
      [] list = "sensors_temperature" ->
            [acc EXCEPT !.sensors_temperature = Append(@, device)]
      [] list = "sensors_smoke" -> [acc EXCEPT !.sensors_smoke = Append(@, device)]
      [] OTHER -> acc

RECURSIVE DeviceLoop(_, _, _)
\* the for loop from device i on; acc.devices are the device dicts of the
\* bundle, which the loop mutates in place
DeviceLoop(acc, i, upd) ==
    IF i > Len(acc.devices) THEN acc
    ELSE LET r == ClassifyDevice(acc.devices[i], upd)
             mutated == [acc EXCEPT !.devices[i] = r.device]
         IN  IF r.exc # "none" THEN [mutated EXCEPT !.exc = r.exc]
             ELSE DeviceLoop(AppendTo(mutated, r.list, r.device), i + 1, upd)

RECURSIVE DictCompFirstWins(_, _)
\* a map that keeps the first state seen for an address
DictCompFirstWins(list, m) ==
    IF list = <<>> THEN m
    ELSE DictCompFirstWins(Tail(list),
            IF Has(m, Head(list)["address"]) THEN m
            ELSE SetItem(m, Head(list)["address"], Head(list)["_state"]))

RECURSIVE DictComp(_, _)
\* {d["address"]: d["_state"] for d in list}, continued from the dict m
DictComp(list, m) ==
    IF list = <<>> THEN m
    ELSE DictComp(Tail(list), SetItem(m, Head(list)["address"], Head(list)["_state"]))

Snapshot(upd, acc) ==
    [alarm |-> upd["arm_status"],
     locks |-> acc.locks,
     door_windows |-> acc.door_windows,
     temperature_sensors |-> acc.sensors_temperature,
     smoke_sensors |-> acc.sensors_smoke,
     status |-> upd["status"],
     online |-> upd["online"],
     door_sensor_map |-> DictComp(acc.door_windows, EmptyDict),
     lock_map |-> DictComp(acc.locks, EmptyDict),
     temperature_map |-> DictComp(acc.sensors_temperature, EmptyDict),
     smoke_map |-> DictComp(acc.sensors_smoke, EmptyDict),
     panel_info |-> upd["panel_info"]]

\* lines 68-180 on the dict get_updates returned: [exc, data, updates], with
\* updates the same dict after the loop has mutated its devices
Normalize(upd) ==
    LET acc == DeviceLoop([exc |-> "none",
                           devices |-> upd["cycle"]["device_status"],
                           locks |-> <<>>, door_windows |-> <<>>,
                           sensors_temperature |-> <<>>, sensors_smoke |-> <<>>],
                          1, upd)
        after == [upd EXCEPT !["cycle"]["device_status"] = acc.devices]
    IN  [exc |-> acc.exc,
         data |-> IF acc.exc = "none" THEN Snapshot(upd, acc) ELSE NoData,
         updates |-> after]

-----------------------------------------------------------------------------
(* get_updates *)

NoUpdates == [tag |-> "None"]

\* a session constructed on every call
NeedsSessionAlways(y) == y = y

NeedsSession(y) == y = None

\* every caught error reported as UpdateFailed
ReclassifyAllTransient(error) ==
    IF error = "AuthenticationError" \/ error \in YALE_BASE_ERRORS THEN "UpdateFailed"
    ELSE error

\* the two except clauses, in their order; any other exception propagates
Reclassify(error) ==
    IF error = "AuthenticationError" THEN "ConfigEntryAuthFailed"
    ELSE IF error \in YALE_BASE_ERRORS THEN "UpdateFailed"
    ELSE error

\* lines 198-204: the exception reading the response raises, or "none"
ReadResponse(resp) ==
    IF \E k \in {"CYCLE", "HISTORY", "STATUS", "ONLINE", "PANEL INFO", "AUTH CHECK"} :
            ~Has(resp, k)
        THEN "KeyError"
    ELSE IF ~Has(resp["AUTH CHECK"], "token_time") THEN "KeyError"
    ELSE IF ~resp["AUTH CHECK"]["token_time"].wellformed THEN "ValueError"
    ELSE "none"

\* c: what the constructor does ("ok" or the error it raises); f: what
\* get_armed_status / get_all do ("ok" or the error raised); arm, resp: what they
\* return.  The value is [yale, sessions, ctor, clientErr, exc, updates].
get_updates(y, n, c, f, arm, resp) ==
    LET construct == NeedsSession(y)
        y1 == IF construct /\ c = "ok" THEN [tag |-> "client", id |-> n + 1] ELSE y
        n1 == IF construct /\ c = "ok" THEN n + 1 ELSE n
        Fail(err, cl, ct) ==
            [yale |-> y1, sessions |-> n1, ctor |-> ct, clientErr |-> cl,
             exc |-> Reclassify(err), updates |-> NoUpdates]
        ct1 == IF construct THEN "ok" ELSE "skipped"
    IN  IF construct /\ c # "ok" THEN Fail(c, c, "failed")
        ELSE IF f # "ok" THEN Fail(f, f, ct1)
        ELSE IF ReadResponse(resp) # "none" THEN Fail(ReadResponse(resp), "none", ct1)
        ELSE [yale |-> y1, sessions |-> n1, ctor |-> ct1, clientErr |-> "none",
              exc |-> "none",
              updates |-> [arm_status |-> arm,
                           cycle |-> resp["CYCLE"],
                           status |-> resp["STATUS"],
                           online |-> resp["ONLINE"],
                           panel_info |-> resp["PANEL INFO"],
                           history |-> resp["HISTORY"],
                           update_timestamp |->
                               Strptime(resp["AUTH CHECK"]["token_time"])]]

\* the end of _async_update_data, given what get_updates returned (g) and what
\* the loop and the maps made of it (r)
Finish(g, r) ==
    [yale |-> g.yale, sessions |-> g.sessions, ctor |-> g.ctor,
     clientErr |-> g.clientErr,
     outcome |-> IF r.exc = "none" THEN "snapshot" ELSE r.exc,
     raw |-> g.updates["cycle"]["device_status"],
     updates |-> r.updates,
     data |-> r.data]

\* _async_update_data: get_updates, then the loop and the maps.  The value is
\* what the call leaves behind: [yale, sessions, ctor, clientErr, outcome, raw,
\* updates, data].
AsyncUpdateData(y, n, c, f, arm, resp) ==
    LET g == get_updates(y, n, c, f, arm, resp)
    IN  IF g.exc # "none"
        THEN [yale |-> g.yale, sessions |-> g.sessions, ctor |-> g.ctor,
              clientErr |-> g.clientErr,
              outcome |-> g.exc, raw |-> <<>>, updates |-> NoUpdates,
              data |-> NoData]
        ELSE Finish(g, Normalize(g.updates))

-----------------------------------------------------------------------------
(* Inputs. *)

Strings(alphabet, n) == UNION {[1..k -> alphabet] : k \in 0..n}

LockMarkers == {"device_status.lock", "device_status.unlock"}
ContactMarkers == {"device_status.dc_close", "device_status.dc_open"}
HexAlphabet == DOMAIN HexDigits \cup {"z"}
DecAlphabet == DOMAIN DecDigits \cup {".", "x"}

Device(type, area, address, status1) ==
    [type |-> type, area |-> area, address |-> address, status1 |-> status1]

Lock(address, status1, lock_status) ==
    SetItem(Device("device_type.door_lock", Str("1"), address, status1),
            "minigw_lock_status", lock_status)
Contact(address, status1) ==
    Device("device_type.door_contact", Str("1"), address, status1)
Temperature(address, status_temp) ==
    SetItem(Device("device_type.temperature_sensor", Str("1"), address, {}),
            "status_temp", status_temp)
Smoke(address, area) == Device("device_type.smoke_detector", area, address, {})
Keypad(address) == Device("device_type.keypad", Str("1"), address, {})

\* every lock status of at most MaxStrLen characters, with every combination of
\* the lock markers; a lock without the key; every contact; temperatures
SingleDevices ==
    {Lock("a1", s, v) : s \in SUBSET LockMarkers,
                        v \in {None} \cup {Chars(cs) : cs \in Strings(HexAlphabet, MaxStrLen)}}
    \cup {Device("device_type.door_lock", Str("1"), "a1", s) : s \in SUBSET LockMarkers}
    \cup {Contact("a1", s) : s \in SUBSET (LockMarkers \cup ContactMarkers)}
    \cup {Temperature("a1", v) :
            v \in {None} \cup {Chars(cs) : cs \in Strings(DecAlphabet, MaxStrLen)}}
    \cup {Smoke("a1", Str("1")), Keypad("a1")}

HistoryItem(time, type, area, event_type) ==
    [time |-> time, type |-> type, area |-> area, event_type |-> event_type]

At(mi, ss) == [mi |-> mi, ss |-> ss]

\* the reference time 5:00, so that the window starts at 2:00
TokenTime == [wellformed |-> TRUE, mi |-> 5, ss |-> 0]

HistoryItems ==
    {HistoryItem(t, ty, a, Str(e)) :
        t \in {At(1, 59), At(2, 0), At(4, 0)},
        ty \in {"device_type.smoke_detector", "device_type.door_contact"},
        a \in {IntV(1), Str("2")},
        e \in {YALE_EVENT_TYPE_SMOKE_ON, YALE_EVENT_TYPE_SMOKE_OFF, "1000"}}

Histories == UNION {[1..k -> HistoryItems] : k \in 0..MaxHist}

SmokeOn(mi, area) ==
    HistoryItem(At(mi, 0), "device_type.smoke_detector", area,
                Str(YALE_EVENT_TYPE_SMOKE_ON))

Bundle(devices, history, update_timestamp) ==
    [arm_status |-> "arm",
     cycle |-> [device_status |-> devices],
     status |-> "ok",
     online |-> "online",
     panel_info |-> "panel",
     history |-> history,
     update_timestamp |-> update_timestamp]

\* devices of every type; two locks and two contacts share an address
SomeDevices ==
    {Lock("a1", {"device_status.lock"}, Chars(<<"1", "1">>)),
     Lock("a1", {"device_status.unlock"}, None),
     Contact("a1", {"device_status.dc_close"}),
     Contact("a1", {"device_status.dc_open"}),
     Temperature("a1", Chars(<<"2", "1", ".", "5">>)),
     Temperature("a2", Chars(<<"x">>)),
     Smoke("a1", Str("1")),
     Keypad("a1")}

DeviceLists == UNION {[1..k -> SomeDevices] : k \in 0..MaxDevices}

Response(devices, history, token_time) ==
    ("PANEL INFO" :> "panel") @@ ("AUTH CHECK" :> [token_time |-> token_time])
    @@ [CYCLE |-> [device_status |-> devices], HISTORY |-> history,
        STATUS |-> "ok", ONLINE |-> "online"]

WellFormedResponses ==
    {Response(d, <<SmokeOn(4, IntV(1))>>, TokenTime) : d \in DeviceLists}

\* well-formed responses, one without PANEL INFO and one with a token time that
\* strptime rejects
Responses ==
    WellFormedResponses
    \cup {[k \in {"CYCLE", "HISTORY", "STATUS", "ONLINE", "AUTH CHECK"} |->
            Response(<<>>, <<>>, TokenTime)[k]]}
    \cup {Response(<<>>, <<>>, [wellformed |-> FALSE, mi |-> 0, ss |-> 0])}

ClientResults == {"ok", "AuthenticationError"} \cup YALE_BASE_ERRORS

-----------------------------------------------------------------------------
(* The coordinator: every call of _async_update_data is one step. *)

Init ==
    /\ yale = None
    /\ sessions = 0
    /\ ctor = "skipped"
    /\ clientErr = "none"
    /\ outcome = "none"
    /\ raw = <<>>
    /\ updates = NoUpdates
    /\ data = NoData
    /\ prev = NoData
    /\ ret = None
    /\ pc = "idle"

\* one call of _async_update_data; c, f and resp are what the client does
Call(c, f, resp) ==
    LET r == AsyncUpdateData(yale, sessions, c, f, "arm", resp)
    IN  /\ yale' = r.yale
        /\ sessions' = r.sessions
        /\ ctor' = r.ctor
        /\ clientErr' = r.clientErr
        /\ outcome' = r.outcome
        /\ raw' = r.raw
        /\ updates' = r.updates
        /\ data' = r.data

Refresh ==
    /\ pc = "idle"
    /\ sessions < MaxSessions
    /\ \E c \in IF yale = None THEN ClientResults ELSE {"ok"} :
       \E f \in IF c = "ok" THEN ClientResults ELSE {"ok"} :
       \E resp \in IF f = "ok" /\ c = "ok" THEN Responses
                   ELSE {Response(<<>>, <<>>, TokenTime)} :
            Call(c, f, resp)
    /\ UNCHANGED <<prev, ret, pc>>

Next == Refresh

Spec == Init /\ [][Next]_vars

\* the coordinator with a client that never fails and always returns a
\* complete response
RefreshWellFormed ==
    /\ pc = "idle"
    /\ sessions < MaxSessions
    /\ \E resp \in WellFormedResponses : Call("ok", "ok", resp)
    /\ UNCHANGED <<prev, ret, pc>>

NextWellFormed == RefreshWellFormed

SpecWellFormed == Init /\ [][NextWellFormed]_vars

-----------------------------------------------------------------------------
(* The normalization applied to one bundle, and applied again to the same  *)
(* bundle, whose device dicts the first run has mutated.                   *)

InitBundle(devices, history) ==
    /\ yale = None
    /\ sessions = 0
    /\ ctor = "skipped"
    /\ clientErr = "none"
    /\ outcome = "none"
    /\ raw = devices
    /\ updates = Bundle(devices, history, Strptime(TokenTime))
    /\ data = NoData
    /\ prev = NoData
    /\ ret = None
    /\ pc = "fresh"

Normalized ==
    LET r == Normalize(updates)
    IN  /\ outcome' = IF r.exc = "none" THEN "snapshot" ELSE r.exc
        /\ updates' = r.updates
        /\ data' = r.data
        /\ prev' = data

NormalizeOnce ==
    /\ pc = "fresh"
    /\ Normalized
    /\ pc' = "once"
    /\ UNCHANGED <<yale, sessions, ctor, clientErr, raw, ret>>

NormalizeAgain ==
    /\ pc = "once"
    /\ Normalized
    /\ pc' = "twice"
    /\ UNCHANGED <<yale, sessions, ctor, clientErr, raw, ret>>

NextNormalize == NormalizeOnce \/ NormalizeAgain

InitDevice == \E d \in SingleDevices : InitBundle(<<d>>, <<SmokeOn(4, IntV(1))>>)

SpecDevice == InitDevice /\ [][NextNormalize]_vars

InitIdem ==
    \E d \in DeviceLists, h \in {<<>>, <<SmokeOn(4, IntV(1))>>} : InitBundle(d, h)

SpecIdem == InitIdem /\ [][NextNormalize]_vars

-----------------------------------------------------------------------------
(* device_on_in_updates_history applied to one smoke detector and one history. *)

InitSmoke ==
    \E area \in {Str("1"), Str("2")}, h \in Histories :
        InitBundle(<<Smoke("a1", area)>>, h)

Scan ==
    /\ pc = "fresh"
    /\ ret' = device_on_in_updates_history(raw[1], updates,
                    YALE_EVENT_TYPE_SMOKE_ON, YALE_EVENT_TYPE_SMOKE_OFF,
                    DefaultMinutes)
    /\ pc' = "scanned"
    /\ UNCHANGED <<yale, sessions, ctor, clientErr, outcome, raw, updates, data, prev>>

NextSmoke == Scan

SpecSmoke == InitSmoke /\ [][NextSmoke]_vars

-----------------------------------------------------------------------------
(* Properties of the lock and contact classification (SpecDevice). *)

TheDevice == raw[1]
IsLock == TheDevice["type"] = "device_type.door_lock"
IsContact == TheDevice["type"] = "device_type.door_contact"

\* the device has a minigw_lock_status that is a non-empty text of hex digits
HasHexStatus ==
    /\ IsLock
    /\ Has(TheDevice, "minigw_lock_status")
    /\ TheDevice["minigw_lock_status"].tag = "str"
    /\ IntBase16(TheDevice["minigw_lock_status"].cs).ok

\* the decision table: <<state, secondary>>, secondary "unset" in row 6
LockTable(v, s) ==
    LET anyMarker == "device_status.lock" \in s \/ "device_status.unlock" \in s
        bit4 == v % 32 >= 16
        bit0 == v % 2 = 1
    IN  CASE v = 0 /\ "device_status.lock" \in s -> <<"locked", "unknown">>
          [] v = 0 /\ "device_status.lock" \notin s /\ "device_status.unlock" \in s ->
                <<"unlocked", "unknown">>
          [] v # 0 /\ anyMarker /\ bit4 /\ bit0 -> <<"locked", "closed">>
          [] v # 0 /\ anyMarker /\ bit4 /\ ~bit0 -> <<"unlocked", "closed">>
          [] v # 0 /\ anyMarker /\ ~bit4 -> <<"unlocked", "open">>
          [] OTHER -> <<"unavailable", "unset">>

\* the one lock of the snapshot carries the pair <<state, secondary>>
LockResultIs(pair) ==
    /\ outcome = "snapshot"
    /\ Len(data.locks) = 1
    /\ data.lock_map = ("a1" :> Str(pair[1]))
    /\ LET d == data.locks[1]
       IN  /\ d["_state"] = Str(pair[1])
           /\ IF pair[2] = "unset" THEN ~Has(d, "_state2")
              ELSE Has(d, "_state2") /\ d["_state2"] = Str(pair[2])

\* C1: a lock whose minigw_lock_status is a hexadecimal text with value v and
\* whose status flags are s gets the state and secondary state of the first
\* matching row of the decision table, and unavailable with no secondary state
\* when no row matches.
C1_LockDecisionTable ==
    (pc = "once" /\ HasHexStatus) =>
        LockResultIs(LockTable(IntBase16(TheDevice["minigw_lock_status"].cs).v,
                               TheDevice["status1"]))

\* status 0x00 with both markers present: row 1 wins
C1_Witness ==
    /\ pc = "once"
    /\ HasHexStatus
    /\ TheDevice["minigw_lock_status"] = Chars(<<"0", "0">>)
    /\ TheDevice["status1"] = LockMarkers
    /\ LockResultIs(<<"locked", "unknown">>)

\* the device is a lock whose minigw_lock_status is absent (no key, or None)
\* or empty
StatusAbsentOrEmpty ==
    /\ IsLock
    /\ \/ ~Has(TheDevice, "minigw_lock_status")
       \/ TheDevice["minigw_lock_status"] = None
       \/ TheDevice["minigw_lock_status"] = Chars(<<>>)

\* C8: a lock whose minigw_lock_status is absent or empty is classified as if
\* the status were zero, by rows 1, 2 or 6 of the table, and the cycle does not
\* fail.
C8_AbsentStatusIsZero ==
    (pc = "once" /\ StatusAbsentOrEmpty) =>
        LockResultIs(LockTable(0, TheDevice["status1"]))

\* C9: a contact is closed when the flags hold the closed marker (also with the
\* open marker), open when they hold the open marker only, unavailable when
\* they hold neither.
C9_ContactState ==
    (pc = "once" /\ IsContact) =>
        /\ outcome = "snapshot"
        /\ Len(data.door_windows) = 1
        /\ LET s == TheDevice["status1"]
               st == data.door_windows[1]["_state"]
           IN  /\ "device_status.dc_close" \in s => st = Str("closed")
               /\ ("device_status.dc_open" \in s /\ "device_status.dc_close" \notin s)
                    => st = Str("open")
               /\ (s \cap ContactMarkers = {}) => st = Str("unavailable")

\* both markers present: closed
C9_Witness ==
    /\ pc = "once"
    /\ IsContact
    /\ ContactMarkers \subseteq TheDevice["status1"]
    /\ data.door_windows[1]["_state"] = Str("closed")

-----------------------------------------------------------------------------
(* Properties of the history scan (SpecSmoke). *)

TheHistory == updates["history"]

\* the start of the window, T - W, in seconds
WindowStart == updates["update_timestamp"] - 60 * DefaultMinutes

InWindow(i) == TheHistory[i]["time"].mi * 60 + TheHistory[i]["time"].ss >= WindowStart

\* item i is an on or off event of the device's type and area
Decides(i) ==
    /\ TheHistory[i]["type"] = TheDevice["type"]
    /\ PyStr(TheHistory[i]["area"]) = PyStr(TheDevice["area"])
    /\ PyStr(TheHistory[i]["event_type"])
            \in {YALE_EVENT_TYPE_SMOKE_ON, YALE_EVENT_TYPE_SMOKE_OFF}

\* the first item in scan order that is inside the window and decides
Deciding == {i \in 1..Len(TheHistory) :
                /\ InWindow(i) /\ Decides(i)
                /\ \A j \in 1..(i - 1) : ~(InWindow(j) /\ Decides(j))}

\* C2: the scan returns true exactly when the first item that is inside the
\* window, matches the device's type and area as strings and is an on or off
\* event is an on event, and no item older than the window start precedes it;
\* an item exactly at the window start is inside.  It returns false otherwise
\* (empty history, every deciding event too old, an off event first).
C2_ScanResult ==
    pc = "scanned" =>
        (ret <=> \E i \in Deciding :
                    /\ PyStr(TheHistory[i]["event_type"]) = YALE_EVENT_TYPE_SMOKE_ON
                    /\ \A j \in 1..(i - 1) : InWindow(j))

\* an unrelated item, then an on event exactly at the window start, whose area
\* is the number 1 while the device's is the text "1": true
C2_Witness ==
    /\ pc = "scanned"
    /\ Len(TheHistory) = 2
    /\ TheHistory[1]["type"] # TheDevice["type"]
    /\ TheHistory[2] = HistoryItem(At(2, 0), "device_type.smoke_detector", IntV(1),
                                   Str(YALE_EVENT_TYPE_SMOKE_ON))
    /\ TheDevice["area"] = Str("1")
    /\ InWindow(1)
    /\ ret = TRUE

-----------------------------------------------------------------------------
(* Idempotence of the normalization (SpecIdem). *)

\* C10: normalizing a bundle again, after a first run has attached _state and
\* _state2 to its device dicts, returns the same lists, maps and derived states
\* as the first run.
C10_Idempotent == pc = "twice" => data = prev

\* two runs that returned a snapshot with a lock carrying _state2
C10_Witness ==
    /\ pc = "twice"
    /\ outcome = "snapshot"
    /\ Len(data.locks) >= 1
    /\ Has(data.locks[1], "_state2")
    /\ Len(data.door_windows) >= 1
    /\ Has(updates["cycle"]["device_status"][1], "_state")

-----------------------------------------------------------------------------
(* Properties of the refresh cycle (Spec). *)

\* C3: a call of _async_update_data ends with a complete snapshot, with
\* ConfigEntryAuthFailed or with UpdateFailed, and with nothing else; when it
\* does not return a snapshot it returns no data at all.
C3_ThreeOutcomes ==
    /\ outcome \in {"none", "snapshot", "ConfigEntryAuthFailed", "UpdateFailed"}
    /\ outcome # "snapshot" => data = NoData

\* C4: an AuthenticationError of the client, from the constructor or from the
\* fetch calls, ends the call with ConfigEntryAuthFailed; any other client
\* error ends it with UpdateFailed.
C4_ErrorKinds ==
    /\ clientErr = "AuthenticationError" => outcome = "ConfigEntryAuthFailed"
    /\ clientErr \in ClientResults \ {"ok", "AuthenticationError"}
            => outcome = "UpdateFailed"

\* an AuthenticationError from the fetch calls of a session built by an
\* earlier call
C4_Witness ==
    /\ clientErr = "AuthenticationError"
    /\ ctor = "skipped"
    /\ yale # None
    /\ outcome = "ConfigEntryAuthFailed"

\* the addresses of a list, and the last position of an address in it
Addresses(list) == {list[i]["address"] : i \in 1..Len(list)}
LastAt(list, a) ==
    CHOOSE i \in 1..Len(list) :
        /\ list[i]["address"] = a
        /\ \A j \in (i + 1)..Len(list) : list[j]["address"] # a

MapMatches(map, list) ==
    /\ DOMAIN map = Addresses(list)
    /\ \A a \in DOMAIN map : map[a] = list[LastAt(list, a)]["_state"]

\* C5: in every returned snapshot each of the four maps has exactly the
\* addresses of its category's list as keys, and maps an address to the _state
\* of the last device of the list with that address.
C5_MapsMatchLists ==
    outcome = "snapshot" =>
        /\ MapMatches(data.lock_map, data.locks)
        /\ MapMatches(data.door_sensor_map, data.door_windows)
        /\ MapMatches(data.temperature_map, data.temperature_sensors)
        /\ MapMatches(data.smoke_map, data.smoke_sensors)

\* two locks with one address and different states: the second one's state
C5_Witness ==
    /\ outcome = "snapshot"
    /\ Len(data.locks) = 2
    /\ data.locks[1]["address"] = data.locks[2]["address"]
    /\ data.locks[1]["_state"] = Str("locked")
    /\ data.locks[2]["_state"] = Str("unlocked")
    /\ data.lock_map = ("a1" :> Str("unlocked"))

\* the positions of the raw list whose device has the type, in increasing order
RECURSIVE PositionsOf(_, _)
PositionsOf(type, i) ==
    IF i > Len(raw) THEN <<>>
    ELSE IF raw[i]["type"] = type THEN <<i>> \o PositionsOf(type, i + 1)
    ELSE PositionsOf(type, i + 1)

\* the list holds the raw devices of the type, each once and in the raw order,
\* each with _state set and its raw fields kept
ListHolds(list, type) ==
    LET pos == PositionsOf(type, 1)
    IN  /\ Len(list) = Len(pos)
        /\ \A k \in 1..Len(list) :
                /\ Has(list[k], "_state")
                /\ [f \in DOMAIN raw[pos[k]] |-> list[k][f]] = raw[pos[k]]

\* C6: in a returned snapshot every raw device of a known type is in the list
\* of its own category exactly once, in no other list, in the raw order and
\* with _state set; a device of another type is in no list and no map.
C6_Classification ==
    outcome = "snapshot" =>
        /\ ListHolds(data.locks, "device_type.door_lock")
        /\ ListHolds(data.door_windows, "device_type.door_contact")
        /\ ListHolds(data.temperature_sensors, "device_type.temperature_sensor")
        /\ ListHolds(data.smoke_sensors, "device_type.smoke_detector")
        /\ DOMAIN data.lock_map = Addresses(data.locks)
        /\ DOMAIN data.door_sensor_map = Addresses(data.door_windows)
        /\ DOMAIN data.temperature_map = Addresses(data.temperature_sensors)
        /\ DOMAIN data.smoke_map = Addresses(data.smoke_sensors)

\* a keypad and a smoke detector: the keypad is dropped, the detector kept
C6_Witness ==
    /\ outcome = "snapshot"
    /\ Len(raw) = 2
    /\ raw[1]["type"] = "device_type.keypad"
    /\ raw[2]["type"] = "device_type.smoke_detector"
    /\ Len(data.smoke_sensors) = 1
    /\ data.locks = <<>> /\ data.door_windows = <<>> /\ data.temperature_sensors = <<>>
    /\ data.smoke_map = ("a1" :> Str("on"))

\* C7: a session is constructed only when the coordinator holds none.  A call
\* made with a session keeps that session and constructs nothing, however the
\* call ends; a call made without one attempts the construction, and a failed
\* construction leaves the coordinator without a session.
C7_SessionReuse ==
    [][/\ yale # None => (yale' = yale /\ sessions' = sessions /\ ctor' = "skipped")
       /\ yale = None => ctor' \in {"ok", "failed"}
       /\ ctor' = "failed" => (yale' = None /\ sessions' = sessions)
       /\ ctor' = "ok" => (yale' # None /\ sessions' = sessions + 1)]_vars

\* the first session, reused by a call that failed
C7_Witness ==
    /\ yale = [tag |-> "client", id |-> 1]
    /\ sessions = 1
    /\ ctor = "skipped"
    /\ outcome = "UpdateFailed"

====
